---- MODULE Spec2Model ----
(***************************************************************************)
(* Travel-Planning-Agent: the agent orchestration core of main.py          *)
(* (get_chat_session and the tool-dispatch loop of chat_endpoint) with the *)
(* preference tools of tools.py.  Each chat request is served by a worker  *)
(* thread (chat_endpoint is a sync FastAPI endpoint), so requests          *)
(* interleave at every access to shared state and at every blocking call.  *)
(***************************************************************************)
EXTENDS Naturals, Sequences, FiniteSets, TLC

(* ------------------------------ bounds -------------------------------- *)
\* one worker: the gateway exchanges of the whole behaviour.  A request takes
\* one for its message, and a tool-call response takes one for the result that
\* answers it.
MaxExchanges == 3
\* the same with two workers
ConcExchanges == 3
\* the same for the runs checked for liveness
FairExchanges == 2

(* ------------------------------ inputs -------------------------------- *)
\* worker threads serving chat requests
Reqs == {"r1", "r2"}
\* ChatRequest.user_id is any str, the empty string included
Users == {"", "u1", "u2"}
Messages == {"Plan a trip to Lisbon"}
Prefs == {"I am vegetarian", "museums"}

(* --------------------------- Python values ---------------------------- *)
Absent == "<absent>"
ArgKeys == {"city", "query", "preferences", "preference", "user_id",
            "origin_city", "destination_city", "travel_date"}
EmptyArgs == [k \in ArgKeys |-> Absent]
Arg(args, k, v) == [args EXCEPT ![k] = v]
Keys(args) == {k \in ArgKeys : args[k] # Absent}

\* json: a value json.dumps accepts here is a list of str or an {"error": ..} dict
PyNone == [type |-> "none", items |-> <<>>, error |-> ""]
PyList(items) == [type |-> "list", items |-> items, error |-> ""]
PyErrorDict(msg) == [type |-> "dict", items |-> <<>>, error |-> msg]
\* a str: plain text, or the JSON text of a value
Text(s) == [str |-> s, json |-> PyNone]
JsonDumps(v) == [str |-> "", json |-> v]
\* json.loads raises on text that is not JSON
JsonLoads(s) == IF s.json = PyNone THEN [raised |-> TRUE, value |-> PyNone]
                ELSE [raised |-> FALSE, value |-> s.json]

(* ------------------------- Model Gateway types ------------------------ *)
NoCall == [name |-> "", args |-> EmptyArgs]
NoFR == [name |-> "", kind |-> "none", value |-> Text("")]
TextPart(s) == [text |-> s, function_call |-> NoCall, function_response |-> NoFR]
CallPart(name, args) ==
    [text |-> "", function_call |-> [name |-> name, args |-> args],
     function_response |-> NoFR]
\* {"function_response": {"name": .., "response": {"result" | "error": ..}}}
FunctionResponse(name, kind, value) ==
    [text |-> "", function_call |-> NoCall,
     function_response |-> [name |-> name, kind |-> kind, value |-> value]]
Turn(role, parts) == [role |-> role, parts |-> parts]
Response(parts) == [candidates |-> <<[parts |-> parts]>>]
NoCandidates == [candidates |-> <<>>]
NoResponse == [candidates |-> <<[parts |-> <<TextPart("<unset>")>>]>>]

(* ------------------------------ tools.py ------------------------------ *)
\* what the world outside the process does to one tool invocation
Outcomes == {"ok", "request_error", "other_error"}

available_tools == <<"get_weather", "web_search", "find_hotels", "search_knowledge",
                     "save_preference", "load_preferences", "find_flights">>

\* the parameters of each def: without and with a default
Required(name) ==
    CASE name = "get_weather" -> {"city"}
      [] name = "web_search" -> {"query"}
      [] name = "find_hotels" -> {"city"}
      [] name = "search_knowledge" -> {"query"}
      [] name = "save_preference" -> {"preference"}
      [] name = "load_preferences" -> {}
      [] name = "find_flights" -> {"origin_city", "destination_city", "travel_date"}
      [] OTHER -> {}
Optional(name) ==
    CASE name = "find_hotels" -> {"preferences"}
      [] name = "save_preference" -> {"user_id"}
      [] name = "load_preferences" -> {"user_id"}
      [] OTHER -> {}
\* f(**tool_args) raises TypeError on a missing or an unexpected keyword
Binds(name, args) ==
    /\ Required(name) \subseteq Keys(args)
    /\ Keys(args) \subseteq Required(name) \cup Optional(name)

\* a handler's outcome: it raised, or returned value; the store it leaves
Returned(value, db, disk) == [raised |-> FALSE, value |-> value, db |-> db, disk |-> disk]
Raised(msg, db, disk) == [raised |-> TRUE, value |-> Text(msg), db |-> db, disk |-> disk]

get_weather(args, o, db, disk) ==
    CASE o = "ok" -> Returned(Text("[forecast]"), db, disk)
      [] o = "request_error" -> Returned(Text("Error connecting to Forecast API"), db, disk)
      [] OTHER -> Returned(Text("An unexpected error occurred"), db, disk)

\* only requests' own exceptions are caught
web_search(args, o, db, disk) ==
    CASE o = "ok" -> Returned(Text("[search results]"), db, disk)
      [] o = "request_error" ->
           Returned(Text("Error connecting to Google Search API"), db, disk)
      [] OTHER -> Raised("unexpected search payload", db, disk)

find_hotels(args, o, db, disk) ==
    LET r == web_search(Arg(EmptyArgs, "query", "hotels"), o, db, disk)
    IN IF r.raised
       THEN Returned(JsonDumps(PyErrorDict("Failed to search for hotels")), db, disk)
       ELSE r

search_knowledge(args, o, db, disk) ==
    CASE o = "ok" -> Returned(Text("[planning advice]"), db, disk)
      [] OTHER -> Returned(Text("Error searching knowledge base"), db, disk)

RECURSIVE PageContents(_, _)
\* the page_content of the documents tagged user_id, in docstore order
PageContents(db, user_id) ==
    IF db = <<>> THEN <<>>
    ELSE (IF Head(db).user_id = user_id THEN <<Head(db).page_content>> ELSE <<>>)
         \o PageContents(Tail(db), user_id)

\* the test of the owner left out: every document's text is returned
load_preferences_text_AllUsers(user_id, db) ==
    IF user_id = Absent \/ user_id = ""
    THEN JsonDumps(PyErrorDict("System error: user_id was not provided to tool."))
    ELSE JsonDumps(PyList([i \in DOMAIN db |-> db[i].page_content]))

load_preferences_text(user_id, db) ==
    IF user_id = Absent \/ user_id = ""
    THEN JsonDumps(PyErrorDict("System error: user_id was not provided to tool."))
    ELSE IF db = <<>> THEN JsonDumps(PyList(<<>>))
    ELSE LET user_prefs == PageContents(db, user_id)
         IN IF user_prefs = <<>> THEN JsonDumps(PyList(<<>>))
            ELSE JsonDumps(PyList(user_prefs))

load_preferences(args, o, db, disk) ==
    Returned(load_preferences_text(args["user_id"], db), db, disk)

Document(preference, user_id) ==
    [page_content |-> preference, user_id |-> user_id, type |-> "preference"]

save_preference(args, o, db, disk) ==
    LET user_id == args["user_id"]
        preference == args["preference"]
        new_doc == Document(preference, user_id)
    IN IF user_id = Absent \/ user_id = ""
       THEN Returned(JsonDumps(PyErrorDict(
                "System error: user_id was not provided to tool.")), db, disk)
       ELSE CASE o = "ok" ->
                   Returned(Text("Successfully saved preference: '" \o preference \o "'"),
                            Append(db, new_doc), Append(db, new_doc))
              [] o = "request_error" ->
                   \* add_documents raised: nothing was added
                   Returned(Text("Error saving preference"), db, disk)
              [] OTHER ->
                   \* save_local raised: the document is in memory, not on disk
                   Returned(Text("Error saving preference"), Append(db, new_doc), disk)

find_flights(args, o, db, disk) ==
    LET r == web_search(Arg(EmptyArgs, "query", "flights"), o, db, disk)
    IN IF r.raised
       THEN Returned(JsonDumps(PyErrorDict("Failed to search for flights")), db, disk)
       ELSE r

\* function_to_call(**tool_args)
CallTool(name, args, o, db, disk) ==
    IF ~Binds(name, args) THEN Raised("TypeError", db, disk)
    ELSE CASE name = "get_weather" -> get_weather(args, o, db, disk)
           [] name = "web_search" -> web_search(args, o, db, disk)
           [] name = "find_hotels" -> find_hotels(args, o, db, disk)
           [] name = "search_knowledge" -> search_knowledge(args, o, db, disk)
           [] name = "save_preference" -> save_preference(args, o, db, disk)
           [] name = "load_preferences" -> load_preferences(args, o, db, disk)
           [] name = "find_flights" -> find_flights(args, o, db, disk)


(* ------------------------------ main.py ------------------------------- *)
tool_registry == {available_tools[i] : i \in DOMAIN available_tools}

PolicyTurns ==
    << Turn("user", <<TextPart("SYSTEM_RULE: You are a helpful and expert travel planning agent.")>>),
       Turn("model", <<TextPart("Understood. I am a helpful travel agent. I will follow your rules.")>>) >>

RECURSIVE Join(_, _)
\* sep.join(items)
Join(sep, items) ==
    IF items = <<>> THEN ""
    ELSE IF Len(items) = 1 THEN items[1]
    ELSE items[1] \o sep \o Join(sep, Tail(items))

\* one pair of Turns for each preference
SeedTurns_PerPreference(prefs) ==
    IF Len(prefs) = 1
    THEN << Turn("user", <<TextPart("Please remember these are my long-term preferences: "
                                    \o prefs[1])>>),
            Turn("model", <<TextPart("Understood. I have loaded your preferences.")>>) >>
    ELSE << Turn("user", <<TextPart("Please remember these are my long-term preferences: "
                                    \o prefs[1])>>),
            Turn("model", <<TextPart("Understood. I have loaded your preferences.")>>),
            Turn("user", <<TextPart("Please remember these are my long-term preferences: "
                                    \o Join("; ", Tail(prefs)))>>),
            Turn("model", <<TextPart("Understood. I have loaded your preferences.")>>) >>

SeedTurns(prefs) ==
    << Turn("user", <<TextPart("Please remember these are my long-term preferences: "
                               \o Join("; ", prefs))>>),
       Turn("model", <<TextPart("Understood. I have loaded your preferences.")>>) >>

\* the preferences put in front of the policy turns
InitialHistory_SeedFirst(user_id, db) ==
    LET loaded == JsonLoads(load_preferences_text(user_id, db))
    IN IF ~loaded.raised /\ loaded.value.type = "list" /\ Len(loaded.value.items) > 0
       THEN SeedTurns(loaded.value.items) \o PolicyTurns
       ELSE PolicyTurns

\* get_chat_session, the history handed to model.start_chat
InitialHistory(user_id, db) ==
    LET prefs_json == load_preferences_text(user_id, db)
        loaded == JsonLoads(prefs_json)
        prefs == loaded.value
    IN IF loaded.raised THEN PolicyTurns
       ELSE IF prefs.type = "list" /\ Len(prefs.items) > 0
            THEN PolicyTurns \o SeedTurns(prefs.items)
            ELSE PolicyTurns

GatewayError == "gateway unavailable"
ErrorReply(user_id, e) ==
    [user_id |-> user_id, response |-> "Sorry, I encountered an error: " \o e]
ApologyReply(user_id) ==
    [user_id |-> user_id, response |-> "Sorry, I encountered an error."]
NoReply == [user_id |-> "", response |-> "<none>"]

\* bool(part.function_call): a message with no field set is falsy
Truthy(fc) == fc # NoCall

\* every part looked at: a tool call in a later part keeps the loop going
Breaks_AnyCall(resp) ==
    \/ resp.candidates = <<>>
    \/ resp.candidates[1].parts = <<>>
    \/ \A i \in DOMAIN resp.candidates[1].parts :
          ~Truthy(resp.candidates[1].parts[i].function_call)

\* the second test inverted: "if part.function_call: break"
Breaks_Inverted(resp) ==
    \/ resp.candidates = <<>>
    \/ resp.candidates[1].parts = <<>>
    \/ Truthy(resp.candidates[1].parts[1].function_call)

\* the while loop's two break conditions
Breaks(resp) ==
    \/ resp.candidates = <<>>
    \/ resp.candidates[1].parts = <<>>
    \/ ~Truthy(resp.candidates[1].parts[1].function_call)

\* the test of the text left out
FinalReply_AnyText(user_id, resp) ==
    IF /\ resp.candidates # <<>>
       /\ resp.candidates[1].parts # <<>>
    THEN [user_id |-> user_id, response |-> resp.candidates[1].parts[1].text]
    ELSE ApologyReply(user_id)

\* the value returned after the loop
FinalReply(user_id, resp) ==
    IF /\ resp.candidates # <<>>
       /\ resp.candidates[1].parts # <<>>
       /\ resp.candidates[1].parts[1].text # ""
    THEN [user_id |-> user_id, response |-> resp.candidates[1].parts[1].text]
    ELSE ApologyReply(user_id)

\* the injection left out: the model's own arguments are passed on
Injected_Trusting(name, args, user_id) == args

\* tool_args after the identity injection
Injected(name, args, user_id) ==
    IF name \in {"save_preference", "load_preferences"}
    THEN Arg(args, "user_id", user_id)
    ELSE args

UnknownToolResult(name) == FunctionResponse(name, "error", Text("Unknown tool: " \o name))
SuccessResult(name, value) == FunctionResponse(name, "result", value)
ErrorResult(name, e) == FunctionResponse(name, "error", Text("Error executing tool: " \o e))

(* ------------------------- the Model Gateway -------------------------- *)
FinalText == "Here is your Lisbon plan."
WeatherCall == CallPart("get_weather", Arg(EmptyArgs, "city", "Lisbon"))
SaveCall(p) == CallPart("save_preference", Arg(EmptyArgs, "preference", p))
LoadCall == CallPart("load_preferences", Arg(EmptyArgs, "user_id", "u2"))
\* the tool calls the model is taken to request: a tool that returns, one whose
\* arguments do not bind, one that can raise, the two preference tools with and
\* without a user_id of the model's own, and a name that is not registered
ToolCalls ==
    { WeatherCall,
      CallPart("get_weather", EmptyArgs),
      CallPart("web_search", Arg(EmptyArgs, "query", "Lisbon museums")),
      LoadCall,
      SaveCall("I am vegetarian"),
      CallPart("save_preference", Arg(Arg(EmptyArgs, "preference", "museums"),
                                      "user_id", "u2")),
      CallPart("book_flight", Arg(EmptyArgs, "city", "Lisbon")) }
\* responses whose leading part requests a tool
CallResponses ==
    {Response(<<c>>) : c \in ToolCalls}
    \cup {Response(<<LoadCall, SaveCall("museums")>>)}
\* responses whose leading part requests none
PlainResponses ==
    { NoCandidates,
      Response(<<>>),
      Response(<<TextPart("")>>),
      Response(<<TextPart(FinalText)>>),
      Response(<<TextPart(FinalText), SaveCall("museums")>>) }

\* resp asks for a tool: the gateway will be sent a result for it
RequestsTool(resp) ==
    /\ resp.candidates # <<>>
    /\ resp.candidates[1].parts # <<>>
    /\ resp.candidates[1].parts[1].function_call # NoCall

\* ChatSession.send_message on success: the content sent and the reply join the history
Exchange(content, resp) ==
    << Turn("user", <<content>>),
       Turn("model", IF resp.candidates = <<>> THEN <<>> ELSE resp.candidates[1].parts) >>

(* ------------------------------- state -------------------------------- *)
VARIABLES
    chat_sessions,  \* main.chat_sessions: user_id -> ChatSession (an index of sessions)
    sessions,       \* every ChatSession object created: its history
    prefs_db,       \* tools.prefs_db, the in-memory documents
    prefs_disk,     \* data/user_prefs.faiss as last written by save_local
    pc,             \* where each worker's chat_endpoint call stands
    request,        \* its ChatRequest
    chat,           \* its local chat
    history,        \* get_chat_session's local history
    response,       \* its local response
    tool_name, tool_args,
    sent,           \* the content of its current or latest send_message
    site,           \* the send_message call it is in or last left
    exc,            \* the exception caught at "except Exception as e" in the loop
    reply,          \* the value chat_endpoint returned
    calls, execs,   \* gateway calls and handler invocations of the current request
    left            \* gateway exchanges not yet taken

vars == <<chat_sessions, sessions, prefs_db, prefs_disk, pc, request, chat, history,
          response, tool_name, tool_args, sent, site, exc, reply, calls, execs,
          left>>
shared == <<chat_sessions, sessions, prefs_db, prefs_disk>>
budget == <<left>>

NoRequest == [user_id |-> "", message |-> ""]
NoSessions == [u \in {} |-> 0]

Idle ==
    /\ pc = [r \in Reqs |-> "idle"]
    /\ request = [r \in Reqs |-> NoRequest]
    /\ chat = [r \in Reqs |-> 0]
    /\ history = [r \in Reqs |-> <<>>]
    /\ response = [r \in Reqs |-> NoResponse]
    /\ tool_name = [r \in Reqs |-> ""]
    /\ tool_args = [r \in Reqs |-> EmptyArgs]
    /\ sent = [r \in Reqs |-> TextPart("")]
    /\ site = [r \in Reqs |-> "none"]
    /\ exc = [r \in Reqs |-> "none"]
    /\ reply = [r \in Reqs |-> NoReply]
    /\ calls = [r \in Reqs |-> 0]
    /\ execs = [r \in Reqs |-> 0]

Init ==
    /\ chat_sessions = NoSessions
    /\ sessions = <<>>
    /\ prefs_db = <<>>
    /\ prefs_disk = <<>>
    /\ Idle
    /\ left = MaxExchanges

\* what data/user_prefs.faiss may hold when the process starts: nothing, or what
\* save_preference wrote in earlier runs
StoresAtStart ==
    { <<>>,
      << Document("I am vegetarian", "u1"), Document("museums", "u2"),
         Document("museums", "u1") >> }

\* the start of the two-worker runs
ConcInit ==
    /\ chat_sessions = NoSessions
    /\ sessions = <<>>
    /\ prefs_disk \in StoresAtStart
    /\ prefs_db = prefs_disk
    /\ Idle
    /\ left = ConcExchanges


(* ------------------------------ actions ------------------------------- *)
Finished(r) == pc[r] \in {"idle", "done", "raised"}

\* POST /chat arrives at a free worker
NewRequest(r, u, m) ==
    /\ Finished(r)
    /\ left > 0
    /\ left' = left - 1
    /\ pc' = [pc EXCEPT ![r] = "get_session"]
    /\ request' = [request EXCEPT ![r] = [user_id |-> u, message |-> m]]
    /\ chat' = [chat EXCEPT ![r] = 0]
    /\ history' = [history EXCEPT ![r] = <<>>]
    /\ response' = [response EXCEPT ![r] = NoResponse]
    /\ tool_name' = [tool_name EXCEPT ![r] = ""]
    /\ tool_args' = [tool_args EXCEPT ![r] = EmptyArgs]
    /\ sent' = [sent EXCEPT ![r] = TextPart("")]
    /\ site' = [site EXCEPT ![r] = "none"]
    /\ exc' = [exc EXCEPT ![r] = "none"]
    /\ reply' = [reply EXCEPT ![r] = NoReply]
    /\ calls' = [calls EXCEPT ![r] = 0]
    /\ execs' = [execs EXCEPT ![r] = 0]
    /\ UNCHANGED shared

\* the preferences loaded again on every request for an existing session
GetSession_Resync(r) ==
    /\ pc[r] = "get_session"
    /\ IF request[r].user_id \in DOMAIN chat_sessions
       THEN /\ chat' = [chat EXCEPT ![r] = chat_sessions[request[r].user_id]]
            /\ sessions' = [sessions EXCEPT ![chat_sessions[request[r].user_id]] =
                                InitialHistory(request[r].user_id, prefs_db)
                                \o SubSeq(@, 3, Len(@))]
            /\ pc' = [pc EXCEPT ![r] = "send_first"]
       ELSE /\ pc' = [pc EXCEPT ![r] = "create"]
            /\ UNCHANGED <<chat, sessions>>
    /\ UNCHANGED <<chat_sessions, prefs_db, prefs_disk, request, history, response,
                   tool_name, tool_args, sent, site, exc, reply, calls, execs, budget>>

\* get_chat_session: the membership test, and the return of an existing session
GetSession(r) ==
    /\ pc[r] = "get_session"
    /\ IF request[r].user_id \in DOMAIN chat_sessions
       THEN /\ chat' = [chat EXCEPT ![r] = chat_sessions[request[r].user_id]]
            /\ pc' = [pc EXCEPT ![r] = "send_first"]
       ELSE /\ pc' = [pc EXCEPT ![r] = "create"]
            /\ chat' = chat
    /\ UNCHANGED <<shared, request, history, response, tool_name, tool_args, sent,
                   site, exc, reply, calls, execs, budget>>

\* a load result that is not a list ends the request with the exception
BuildHistory_AbortOnError(r) ==
    /\ pc[r] = "create"
    /\ IF JsonLoads(load_preferences_text(request[r].user_id, prefs_db)).value.type = "list"
       THEN /\ history' = [history EXCEPT ![r] =
                               InitialHistory(request[r].user_id, prefs_db)]
            /\ pc' = [pc EXCEPT ![r] = "register"]
       ELSE /\ history' = history
            /\ pc' = [pc EXCEPT ![r] = "raised"]
    /\ UNCHANGED <<shared, request, chat, response, tool_name, tool_args, sent,
                   site, exc, reply, calls, execs, budget>>

\* get_chat_session: the policy turns and the preferences loaded into history
BuildHistory(r) ==
    /\ pc[r] = "create"
    /\ history' = [history EXCEPT ![r] = InitialHistory(request[r].user_id, prefs_db)]
    /\ pc' = [pc EXCEPT ![r] = "register"]
    /\ UNCHANGED <<shared, request, chat, response, tool_name, tool_args, sent,
                   site, exc, reply, calls, execs, budget>>

\* get_chat_session: chat_sessions[user_id] = model.start_chat(history=history)
StartChat(r) ==
    LET u == request[r].user_id
        id == Len(sessions) + 1
    IN /\ pc[r] = "register"
       /\ sessions' = Append(sessions, history[r])
       /\ chat_sessions' = [v \in DOMAIN chat_sessions \cup {u} |->
                               IF v = u THEN id ELSE chat_sessions[v]]
       /\ history' = [history EXCEPT ![r] = <<>>]
       /\ pc' = [pc EXCEPT ![r] = "return_session"]
       /\ UNCHANGED <<prefs_db, prefs_disk, request, chat, response, tool_name,
                      tool_args, sent, site, exc, reply, calls, execs, budget>>

\* get_chat_session: return chat_sessions[user_id], read again after the store
ReturnSession(r) ==
    /\ pc[r] = "return_session"
    /\ chat' = [chat EXCEPT ![r] = chat_sessions[request[r].user_id]]
    /\ pc' = [pc EXCEPT ![r] = "send_first"]
    /\ UNCHANGED <<shared, request, history, response, tool_name, tool_args, sent,
                   site, exc, reply, calls, execs, budget>>

\* chat.send_message(request.message) is entered
SendFirst(r) ==
    /\ pc[r] = "send_first"
    /\ sent' = [sent EXCEPT ![r] = TextPart(request[r].message)]
    /\ site' = [site EXCEPT ![r] = "first"]
    /\ calls' = [calls EXCEPT ![r] = calls[r] + 1]
    /\ pc' = [pc EXCEPT ![r] = "awaiting"]
    /\ UNCHANGED <<shared, request, chat, history, response, tool_name, tool_args,
                   exc, reply, execs, budget>>

\* the outstanding send_message returns resp
GatewayRespond(r, resp) ==
    /\ pc[r] = "awaiting"
    /\ RequestsTool(resp) => left > 0
    /\ left' = IF RequestsTool(resp) THEN left - 1 ELSE left
    /\ response' = [response EXCEPT ![r] = resp]
    /\ sessions' = [sessions EXCEPT ![chat[r]] = @ \o Exchange(sent[r], resp)]
    /\ pc' = [pc EXCEPT ![r] = "loop"]
    /\ UNCHANGED <<chat_sessions, prefs_db, prefs_disk, request, chat, history,
                   tool_name, tool_args, sent, site, exc, reply, calls, execs>>

\* chat_endpoint is left, by a return or by an exception: its locals are gone
Leave(r, how, value) ==
    /\ pc' = [pc EXCEPT ![r] = how]
    /\ reply' = [reply EXCEPT ![r] = value]
    /\ response' = [response EXCEPT ![r] = NoResponse]
    /\ tool_name' = [tool_name EXCEPT ![r] = ""]
    /\ tool_args' = [tool_args EXCEPT ![r] = EmptyArgs]
    /\ sent' = [sent EXCEPT ![r] = TextPart("")]
    /\ chat' = [chat EXCEPT ![r] = 0]

\* the first call tried again instead of returning the error
GatewayFail_Retry(r) ==
    /\ pc[r] = "awaiting"
    /\ calls' = [calls EXCEPT ![r] = calls[r] + 1]
    /\ UNCHANGED <<shared, pc, request, chat, history, response, tool_name, tool_args,
                   sent, site, exc, reply, execs, budget>>

\* the outstanding send_message raises
GatewayFail(r) ==
    /\ pc[r] = "awaiting"
    /\ CASE site[r] = "first" ->
              \* except Exception: return the error to the user
              /\ Leave(r, "done", ErrorReply(request[r].user_id, GatewayError))
              /\ UNCHANGED <<site, exc, calls>>
         [] site[r] = "result" ->
              \* inside the try: the handler's except clause catches it and sends again
              /\ exc' = [exc EXCEPT ![r] = "gateway"]
              /\ sent' = [sent EXCEPT ![r] = ErrorResult(tool_name[r], GatewayError)]
              /\ site' = [site EXCEPT ![r] = "error"]
              /\ calls' = [calls EXCEPT ![r] = calls[r] + 1]
              /\ UNCHANGED <<pc, reply, response, tool_name, tool_args, chat>>
         [] OTHER ->
              \* the unknown-tool send and the send of the except clause are unguarded
              /\ Leave(r, "raised", NoReply)
              /\ UNCHANGED <<site, exc, calls>>
    /\ UNCHANGED <<shared, request, history, execs, budget>>

\* one pass of the while loop up to the tool call, or the break and the return
Loop(r) ==
    LET resp == response[r]
        fc == resp.candidates[1].parts[1].function_call
        u == request[r].user_id
    IN /\ pc[r] = "loop"
       /\ IF Breaks(resp)
          THEN /\ Leave(r, "done", FinalReply(u, resp))
               /\ UNCHANGED <<site, calls>>
          ELSE /\ tool_name' = [tool_name EXCEPT ![r] = fc.name]
               /\ IF fc.name \notin tool_registry
                  THEN /\ tool_args' = [tool_args EXCEPT ![r] = fc.args]
                       /\ sent' = [sent EXCEPT ![r] = UnknownToolResult(fc.name)]
                       /\ site' = [site EXCEPT ![r] = "unknown"]
                       /\ calls' = [calls EXCEPT ![r] = calls[r] + 1]
                       /\ pc' = [pc EXCEPT ![r] = "awaiting"]
                  ELSE /\ tool_args' = [tool_args EXCEPT ![r] = Injected(fc.name, fc.args, u)]
                       /\ pc' = [pc EXCEPT ![r] = "exec"]
                       /\ UNCHANGED <<sent, site, calls>>
               /\ UNCHANGED <<reply, response, chat>>
       /\ UNCHANGED <<shared, request, history, exc, execs, budget>>

\* the handler invoked a second time before its result is sent
ToolExec_Twice(r, o) ==
    LET once == CallTool(tool_name[r], tool_args[r], o, prefs_db, prefs_disk)
        out == CallTool(tool_name[r], tool_args[r], o, once.db, once.disk)
    IN /\ pc[r] = "exec"
       /\ prefs_db' = out.db
       /\ prefs_disk' = out.disk
       /\ execs' = [execs EXCEPT ![r] = execs[r] + 2]
       /\ calls' = [calls EXCEPT ![r] = calls[r] + 1]
       /\ pc' = [pc EXCEPT ![r] = "awaiting"]
       /\ IF out.raised
          THEN /\ exc' = [exc EXCEPT ![r] = "handler"]
               /\ sent' = [sent EXCEPT ![r] = ErrorResult(tool_name[r], out.value.str)]
               /\ site' = [site EXCEPT ![r] = "error"]
          ELSE /\ exc' = [exc EXCEPT ![r] = "none"]
               /\ sent' = [sent EXCEPT ![r] = SuccessResult(tool_name[r], out.value)]
               /\ site' = [site EXCEPT ![r] = "result"]
       /\ UNCHANGED <<chat_sessions, sessions, request, chat, history, response,
                      tool_name, tool_args, reply, budget>>

\* function_to_call(**tool_args) runs to its end; its result is sent to the gateway
ToolExec(r, o) ==
    LET out == CallTool(tool_name[r], tool_args[r], o, prefs_db, prefs_disk)
    IN /\ pc[r] = "exec"
       /\ prefs_db' = out.db
       /\ prefs_disk' = out.disk
       /\ execs' = [execs EXCEPT ![r] = execs[r] + 1]
       /\ calls' = [calls EXCEPT ![r] = calls[r] + 1]
       /\ pc' = [pc EXCEPT ![r] = "awaiting"]
       /\ IF out.raised
          THEN /\ exc' = [exc EXCEPT ![r] = "handler"]
               /\ sent' = [sent EXCEPT ![r] = ErrorResult(tool_name[r], out.value.str)]
               /\ site' = [site EXCEPT ![r] = "error"]
          ELSE /\ exc' = [exc EXCEPT ![r] = "none"]
               /\ sent' = [sent EXCEPT ![r] = SuccessResult(tool_name[r], out.value)]
               /\ site' = [site EXCEPT ![r] = "result"]
       /\ UNCHANGED <<chat_sessions, sessions, request, chat, history, response,
                      tool_name, tool_args, reply, budget>>

\* the process is started again: chat_sessions = {} and prefs_db comes from disk
Restart ==
    /\ sessions # <<>>
    /\ \A r \in Reqs : Finished(r)
    /\ chat_sessions' = NoSessions
    /\ sessions' = <<>>
    /\ prefs_db' = prefs_disk
    /\ pc' = [r \in Reqs |-> "idle"]
    /\ request' = [r \in Reqs |-> NoRequest]
    /\ chat' = [r \in Reqs |-> 0]
    /\ history' = [r \in Reqs |-> <<>>]
    /\ response' = [r \in Reqs |-> NoResponse]
    /\ tool_name' = [r \in Reqs |-> ""]
    /\ tool_args' = [r \in Reqs |-> EmptyArgs]
    /\ sent' = [r \in Reqs |-> TextPart("")]
    /\ site' = [r \in Reqs |-> "none"]
    /\ exc' = [r \in Reqs |-> "none"]
    /\ reply' = [r \in Reqs |-> NoReply]
    /\ calls' = [r \in Reqs |-> 0]
    /\ execs' = [r \in Reqs |-> 0]
    /\ UNCHANGED <<prefs_disk, budget>>

\* one worker thread, every response the gateway is taken to give
Next ==
    \/ \E u \in Users, m \in Messages : NewRequest("r1", u, m)
    \/ GetSession("r1")
    \/ BuildHistory("r1")
    \/ StartChat("r1")
    \/ ReturnSession("r1")
    \/ SendFirst("r1")
    \/ \E resp \in CallResponses \cup PlainResponses : GatewayRespond("r1", resp)
    \/ GatewayFail("r1")
    \/ Loop("r1")
    \/ \E o \in Outcomes : ToolExec("r1", o)
    \/ Restart

Spec == Init /\ [][Next]_vars

\* the responses of the two-worker runs
ConcResponses ==
    {Response(<<TextPart(FinalText)>>)} \cup {Response(<<SaveCall(p)>>) : p \in Prefs}

\* two worker threads
ConcNext ==
    \/ \E r \in Reqs, u \in Users, m \in Messages : NewRequest(r, u, m)
    \/ \E r \in Reqs : GetSession(r)
    \/ \E r \in Reqs : BuildHistory(r)
    \/ \E r \in Reqs : StartChat(r)
    \/ \E r \in Reqs : ReturnSession(r)
    \/ \E r \in Reqs : SendFirst(r)
    \/ \E r \in Reqs, resp \in ConcResponses : GatewayRespond(r, resp)
    \/ \E r \in Reqs : GatewayFail(r)
    \/ \E r \in Reqs : Loop(r)
    \/ \E r \in Reqs, o \in Outcomes : ToolExec(r, o)
    \/ Restart

ConcSpec == ConcInit /\ [][ConcNext]_vars

\* two workers, an empty store at the start and one exchange more: two requests
\* that each save a preference
SaveInit ==
    /\ chat_sessions = NoSessions
    /\ sessions = <<>>
    /\ prefs_db = <<>>
    /\ prefs_disk = <<>>
    /\ Idle
    /\ left = ConcExchanges + 1

SaveSpec == SaveInit /\ [][ConcNext]_vars

\* every thread is scheduled again and every blocking call returns or raises
Progress(r) ==
    \/ GetSession(r) \/ BuildHistory(r) \/ StartChat(r) \/ ReturnSession(r)
    \/ SendFirst(r)
    \/ (\E resp \in CallResponses \cup PlainResponses : GatewayRespond(r, resp))
    \/ GatewayFail(r) \/ Loop(r)
    \/ (\E o \in Outcomes : ToolExec(r, o))

FairInit ==
    /\ chat_sessions = NoSessions
    /\ sessions = <<>>
    /\ prefs_db = <<>>
    /\ prefs_disk = <<>>
    /\ Idle
    /\ left = FairExchanges

FairSpec == FairInit /\ [][Next]_vars /\ WF_vars(Progress("r1"))

(* ------------------------------ claims -------------------------------- *)
\* the leading part of resp is a tool-call request
LeadingCall(resp) ==
    /\ resp.candidates # <<>>
    /\ resp.candidates[1].parts # <<>>
    /\ resp.candidates[1].parts[1].function_call.name # ""
InFlight(r) == pc[r] \in {"awaiting", "loop", "exec"}
Returns(r) == pc[r] # "done" /\ pc'[r] = "done"

\* C1: a request that is in the dispatch loop leaves it after finitely many rounds
\* once the gateway stops requesting tools: it returns (DONE) unless a gateway call
\* itself raised out of the loop; and no request returns while the response it
\* holds has a tool-call request as its leading part.
C1_LoopTerminates ==
    /\ [][\A r \in Reqs : Returns(r) => ~LeadingCall(response[r])]_vars
    /\ \A r \in Reqs : InFlight(r) ~> (pc[r] = "done" \/ pc[r] = "raised")
\* a request returned the model's final text after a tool round
C1_Witness ==
    /\ pc["r1"] = "done"
    /\ execs["r1"] >= 1
    /\ reply["r1"].response = FinalText

\* C2: every chat request ends by returning {user_id, response} with a text
\* response; no failure leaves chat_endpoint as an exception.
C2_AlwaysReturnsText ==
    \A r \in Reqs :
        /\ pc[r] # "raised"
        /\ pc[r] = "done" =>
              /\ reply[r].user_id = request[r].user_id
              /\ reply[r].response # NoReply.response

\* the requested name of the response r holds
Requested(r) == response[r].candidates[1].parts[1].function_call.name
UnknownRequested(r) ==
    /\ pc[r] = "loop"
    /\ LeadingCall(response[r])
    /\ \A i \in DOMAIN available_tools : available_tools[i] # Requested(r)

\* C3: a request for a tool that is not registered invokes no handler and does not
\* raise; the next gateway call carries the error "Unknown tool: <name>" under that
\* name, and the loop then inspects the gateway's new response.
C3_UnknownToolReported ==
    [][\A r \in Reqs :
          /\ (UnknownRequested(r) /\ pc'[r] # "loop") =>
                /\ pc'[r] = "awaiting"
                /\ execs'[r] = execs[r]
                /\ calls'[r] = calls[r] + 1
                /\ sent'[r].function_response =
                      [name |-> Requested(r), kind |-> "error",
                       value |-> Text("Unknown tool: " \o Requested(r))]
          /\ (pc[r] = "awaiting" /\ site[r] = "unknown" /\ pc'[r] # "awaiting") =>
                pc'[r] = "loop"]_vars

\* C4: when a known tool's handler raises, nothing reaches the caller of
\* chat_endpoint: an error ToolResult under that tool's name goes to the gateway and
\* the loop goes on with the gateway's new response.
C4_HandlerFailureReported ==
    [][\A r \in Reqs :
          /\ (pc[r] = "exec" /\ pc'[r] # "exec" /\ exc'[r] = "handler") =>
                /\ pc'[r] = "awaiting"
                /\ sent'[r].function_response.name = tool_name[r]
                /\ sent'[r].function_response.kind = "error"
          /\ (pc[r] = "awaiting" /\ exc[r] = "handler" /\ pc'[r] # "awaiting") =>
                pc'[r] = "loop"]_vars

\* the preference the model asked to save in the response r holds
ModelPreference(r) == response[r].candidates[1].parts[1].function_call.args["preference"]
IdentityTools == {"save_preference", "load_preferences"}

\* C5: save_preference and load_preferences are always invoked with the user_id of
\* the request being served, whatever user_id the model supplied; and every document
\* added to the Preference Store is added by a request, tagged with that request's
\* user_id and holding the preference text the model supplied.
C5_IdentityInjected ==
    /\ [](\A r \in Reqs :
            (pc[r] = "exec" /\ tool_name[r] \in IdentityTools) =>
                tool_args[r]["user_id"] = request[r].user_id)
    /\ [][prefs_db' # prefs_db =>
            \/ \E r \in Reqs :
                  /\ pc[r] = "exec" /\ tool_name[r] = "save_preference"
                  /\ prefs_db' = Append(prefs_db,
                        [page_content |-> ModelPreference(r),
                         user_id |-> request[r].user_id, type |-> "preference"])
            \/ (sessions' = <<>> /\ prefs_db' = prefs_disk)]_vars
\* a preference requested with another user's id is stored under the caller's id
C5_Witness ==
    /\ pc["r1"] = "awaiting"
    /\ request["r1"].user_id = "u1"
    /\ sent["r1"].function_response.name = "save_preference"
    /\ \E i \in DOMAIN prefs_db :
          prefs_db[i].user_id = "u1" /\ prefs_db[i].page_content = "museums"

\* C9: when the first gateway call of a request fails, the request returns at once
\* with an error text: one gateway call was made and no handler ran.
C9_FirstCallFailure ==
    /\ [](\A r \in Reqs : site[r] = "first" => (calls[r] = 1 /\ execs[r] = 0))
    /\ [][\A r \in Reqs :
          (pc[r] = "awaiting" /\ site[r] = "first"
             /\ pc'[r] # "awaiting" /\ pc'[r] # "loop") =>
                /\ pc'[r] = "done"
                /\ reply'[r] = [user_id |-> request[r].user_id,
                                response |-> "Sorry, I encountered an error: "
                                             \o GatewayError]
                /\ calls'[r] = 1
                /\ execs'[r] = 0
                /\ prefs_db' = prefs_db]_vars
C9_Witness ==
    /\ pc["r1"] = "done"
    /\ reply["r1"].response = "Sorry, I encountered an error: " \o GatewayError
    /\ calls["r1"] = 1 /\ execs["r1"] = 0

\* resp has no candidates or no parts, or a leading part that is neither a tool
\* call nor non-empty text
NotActionable(resp) ==
    \/ resp.candidates = <<>>
    \/ resp.candidates[1].parts = <<>>
    \/ /\ resp.candidates[1].parts[1].function_call.name = ""
       /\ resp.candidates[1].parts[1].text = ""

\* C10: a response without actionable content ends the request at once: no tool
\* runs, the gateway is not called again and the generic apology is returned.
C10_EmptyResponseApology ==
    [][\A r \in Reqs :
          (pc[r] = "loop" /\ NotActionable(response[r]) /\ pc'[r] # "loop") =>
                /\ pc'[r] = "done"
                /\ reply'[r] = [user_id |-> request[r].user_id,
                                response |-> "Sorry, I encountered an error."]
                /\ calls'[r] = calls[r]
                /\ execs'[r] = execs[r]
                /\ prefs_db' = prefs_db]_vars
\* the apology was returned for an empty response that followed a tool round
C10_Witness ==
    /\ pc["r1"] = "done"
    /\ reply["r1"].response = "Sorry, I encountered an error."
    /\ execs["r1"] >= 1

\* the preference lists a store of the checked sizes can return, and the user
\* Turns that summarise them
PrefLists == UNION {[1..n -> Prefs] : n \in 1..(MaxExchanges + ConcExchanges)}
SeedTexts == {"Please remember these are my long-term preferences: " \o Join("; ", ps) :
                ps \in PrefLists}
IsPolicyUser(t) ==
    t = [role |-> "user", parts |-> <<TextPart(
            "SYSTEM_RULE: You are a helpful and expert travel planning agent.")>>]
IsPolicyAck(t) ==
    t = [role |-> "model", parts |-> <<TextPart(
            "Understood. I am a helpful travel agent. I will follow your rules.")>>]
IsSeedUser(t) ==
    /\ t.role = "user" /\ Len(t.parts) = 1
    /\ t.parts[1].function_response = NoFR
    /\ t.parts[1].text \in SeedTexts
IsSeedAck(t) ==
    t = [role |-> "model",
         parts |-> <<TextPart("Understood. I have loaded your preferences.")>>]
\* a Turn that carries a request's message
IsMessage(t) ==
    /\ t.role = "user" /\ Len(t.parts) = 1
    /\ t.parts[1].text \in Messages
Seeded(h) == Len(h) >= 3 /\ IsSeedUser(h[3])

\* C6: every session ever created, held in chat_sessions or not, starts with the
\* policy pair; a preference-seeding Turn occurs only as the user/model pair at
\* positions 3 and 4; and no message of a request precedes them.
C6_PolicyPairFirst ==
    \A id \in DOMAIN sessions :
        LET h == sessions[id]
        IN /\ Len(h) >= 2
           /\ IsPolicyUser(h[1])
           /\ IsPolicyAck(h[2])
           /\ \A i \in DOMAIN h :
                 /\ IsSeedUser(h[i]) => (i = 3 /\ Len(h) >= 4 /\ IsSeedAck(h[4]))
                 /\ IsSeedAck(h[i]) => (i = 4 /\ IsSeedUser(h[3]))
                 /\ IsMessage(h[i]) => i >= (IF Seeded(h) THEN 5 ELSE 3)
                 /\ (IsPolicyUser(h[i]) \/ IsPolicyAck(h[i])) => i <= 2
\* a session seeded with preferences has served a request
C6_Witness ==
    \E u \in DOMAIN chat_sessions :
        LET h == sessions[chat_sessions[u]]
        IN Seeded(h) /\ Len(h) >= 6 /\ IsMessage(h[5])

\* the texts stored for user u, oldest first
StoredFor(u, db) ==
    LET idx == {i \in DOMAIN db : db[i].user_id = u}
        f[k \in 0..Len(db)] ==
            IF k = 0 THEN <<>>
            ELSE IF k \in idx THEN Append(f[k - 1], db[k].page_content) ELSE f[k - 1]
    IN f[Len(db)]
SummaryText(texts) ==
    LET f[k \in 1..Len(texts)] ==
            IF k = 1 THEN texts[1] ELSE f[k - 1] \o "; " \o texts[k]
    IN "Please remember these are my long-term preferences: " \o f[Len(texts)]
Creates(r) == pc[r] = "create" /\ pc'[r] = "register"
Registers(r) == pc[r] = "register" /\ pc'[r] = "return_session"

\* C7: the history of a new session is built from the store as it is read: with one
\* or more preferences of the user it is the policy pair, one user Turn with all of
\* them joined by "; " and one model acknowledgment (4 Turns); with none it is the
\* policy pair (2 Turns).  That history is what the session starts with.
C7_SeedingAtCreation ==
    [][\A r \in Reqs :
          /\ Creates(r) =>
                LET mine == StoredFor(request[r].user_id, prefs_db)
                    h == history'[r]
                IN IF Len(mine) >= 1
                   THEN /\ Len(h) = 4
                        /\ IsPolicyUser(h[1]) /\ IsPolicyAck(h[2])
                        /\ h[3] = [role |-> "user",
                                   parts |-> <<TextPart(SummaryText(mine))>>]
                        /\ IsSeedAck(h[4])
                   ELSE /\ Len(h) = 2
                        /\ IsPolicyUser(h[1]) /\ IsPolicyAck(h[2])
          /\ Registers(r) =>
                /\ Len(sessions') = Len(sessions) + 1
                /\ sessions'[Len(sessions')] = history[r]
                /\ chat_sessions'[request[r].user_id] = Len(sessions')]_vars
\* a session was created for a user with two stored preferences
C7_Witness ==
    \E u \in DOMAIN chat_sessions :
        /\ Len(StoredFor(u, prefs_db)) >= 2
        /\ Seeded(sessions[chat_sessions[u]])

\* C8: get_chat_session for a user who has a session returns that session as it is
\* and reads no preferences; no step adds, removes or alters the seeding Turns of a
\* session that exists, whatever is saved meanwhile; a preference save_preference
\* reports as saved is on disk under the user's id, a restart brings the store back
\* from disk, and a session created when the store holds a preference of the user
\* carries it in its seeded Turn.
C8_NoResync ==
    [][/\ \A r \in Reqs :
            (pc[r] = "get_session" /\ pc'[r] # "get_session"
               /\ request[r].user_id \in DOMAIN chat_sessions) =>
                  /\ pc'[r] = "send_first"
                  /\ chat'[r] = chat_sessions[request[r].user_id]
                  /\ sessions' = sessions
                  /\ chat_sessions' = chat_sessions
       /\ \A id \in DOMAIN sessions :
            id \in DOMAIN sessions' =>
                  /\ Seeded(sessions'[id]) = Seeded(sessions[id])
                  /\ Len(sessions'[id]) >= Len(sessions[id])
                  /\ \A i \in 1..4 : i <= Len(sessions[id]) =>
                        sessions'[id][i] = sessions[id][i]
       /\ \A r \in Reqs :
            (Creates(r) /\ StoredFor(request[r].user_id, prefs_db) # <<>>) =>
                  /\ Seeded(history'[r])
                  /\ history'[r][3].parts[1].text =
                        SummaryText(StoredFor(request[r].user_id, prefs_db))
       /\ \A r \in Reqs, p \in Prefs :
            (pc[r] = "exec" /\ pc'[r] = "awaiting"
               /\ sent'[r].function_response.value =
                     Text("Successfully saved preference: '" \o p \o "'")) =>
                  /\ prefs_disk' = prefs_db'
                  /\ prefs_db'[Len(prefs_db')].page_content = p
                  /\ prefs_db'[Len(prefs_db')].user_id = request[r].user_id
       /\ (sessions # <<>> /\ sessions' = <<>>) => prefs_db' = prefs_disk]_vars
\* a live session created without preferences has served a later request after a
\* preference of its user was saved, and holds no seeding Turn
C8_Witness ==
    \E u \in DOMAIN chat_sessions :
        LET h == sessions[chat_sessions[u]]
        IN /\ StoredFor(u, prefs_db) # <<>>
           /\ ~Seeded(h)
           /\ Len(h) >= 8
           /\ IsMessage(h[7])

\* C11: load_preferences invoked for a request whose user has no stored preference
\* hands back the empty JSON list, whatever user_id the request carries and whatever
\* the store holds for other users.
C11_EmptyLoadIsEmptyList ==
    [][\A r \in Reqs :
          (pc[r] = "exec" /\ pc'[r] = "awaiting" /\ tool_name[r] = "load_preferences"
             /\ StoredFor(request[r].user_id, prefs_db) = <<>>) =>
                sent'[r].function_response =
                    [name |-> "load_preferences", kind |-> "result",
                     value |-> JsonDumps(PyList(<<>>))]]_vars

\* the Turn of h that carries the message of the latest request served on it
LastMessage(h) ==
    CHOOSE i \in DOMAIN h : IsMessage(h[i]) /\ \A j \in DOMAIN h : IsMessage(h[j]) => j <= i
\* the function_response of the Turn t, NoFR when it carries none
ResultOf(t) == IF t.parts = <<>> THEN NoFR ELSE t.parts[1].function_response
\* since its message every result the request sent was for a registered tool and
\* none reports a failed gateway call
CleanRounds(h) ==
    \A j \in (LastMessage(h) + 1)..Len(h) :
        h[j].role = "user" =>
            /\ \E i \in DOMAIN available_tools : available_tools[i] = ResultOf(h[j]).name
            /\ ResultOf(h[j]).value # Text("Error executing tool: " \o GatewayError)
\* the tool rounds the session shows since the message
Rounds(h) == (Len(h) - LastMessage(h) - 1) \div 2

\* C12: a request that gets n requests for registered tools and then a text, with
\* no gateway call failing, returns that text after exactly n handler invocations
\* and n ToolResults, the j-th result answering the j-th requested tool.
C12_ExactlyNRounds ==
    [][\A r \in Reqs :
          (/\ pc[r] = "loop" /\ pc'[r] = "done"
           /\ response[r].candidates # <<>>
           /\ response[r].candidates[1].parts # <<>>
           /\ response[r].candidates[1].parts[1].text # ""
           /\ CleanRounds(sessions[chat[r]])) =>
              LET h == sessions[chat[r]]
                  s == LastMessage(h)
                  n == Rounds(h)
              IN /\ Len(h) = s + 1 + 2 * n
                 /\ execs[r] = n
                 /\ calls[r] = n + 1
                 /\ \A j \in 1..n :
                       /\ h[s + 2 * j - 1].role = "model"
                       /\ h[s + 2 * j - 1].parts[1].function_call.name # ""
                       /\ h[s + 2 * j].role = "user"
                       /\ ResultOf(h[s + 2 * j]).name =
                             h[s + 2 * j - 1].parts[1].function_call.name
                 /\ h[Len(h)] = [role |-> "model",
                                 parts |-> response[r].candidates[1].parts]
                 /\ reply'[r] = [user_id |-> request[r].user_id,
                                 response |-> response[r].candidates[1].parts[1].text]
                 /\ execs'[r] = n]_vars
\* a request returned the final text after two tool rounds and three gateway calls
C12_Witness ==
    /\ pc["r1"] = "done"
    /\ execs["r1"] = 2
    /\ calls["r1"] = 3
    /\ reply["r1"].response = FinalText

\* C13: no session has two gateway calls outstanding at once, and none has two
\* tool executions outstanding at once, whatever the interleaving of the requests.
C13_OneOutstandingPerSession ==
    \A r1 \in Reqs, r2 \in Reqs :
        (r1 # r2 /\ chat[r1] # 0 /\ chat[r1] = chat[r2]) =>
            /\ ~(pc[r1] = "awaiting" /\ pc[r2] = "awaiting")
            /\ ~(pc[r1] = "exec" /\ pc[r2] = "exec")

\* C14: there is one session for each user_id that has any: as many sessions were
\* created as chat_sessions has entries, and a request that holds a session holds
\* the one chat_sessions holds for its user_id.
C14_OneSessionPerUser ==
    /\ Len(sessions) = Cardinality(DOMAIN chat_sessions)
    /\ \A r \in Reqs :
          chat[r] # 0 =>
              /\ request[r].user_id \in DOMAIN chat_sessions
              /\ chat[r] = chat_sessions[request[r].user_id]

\* C15: a requested registered tool is invoked once and answered by one ToolResult
\* under its name; the result is error-shaped only when the handler raised, and while
\* the result of a handler that returned is being submitted nothing else is
\* submitted for it, a failing gateway call included.
C15_OneResultPerCall ==
    [][\A r \in Reqs :
          /\ (pc[r] = "exec" /\ pc'[r] # "exec") =>
                /\ pc'[r] = "awaiting"
                /\ execs'[r] = execs[r] + 1
                /\ calls'[r] = calls[r] + 1
                /\ sent'[r].function_response.name = tool_name[r]
                /\ sent'[r].function_response.kind \in {"result", "error"}
                /\ sent'[r].function_response.kind = "error" <=> exc'[r] = "handler"
          /\ (pc[r] = "awaiting" /\ site[r] = "result" /\ pc'[r] = "awaiting") =>
                /\ calls'[r] = calls[r]
                /\ sent'[r] = sent[r]]_vars

\* a is an initial segment of b
IsPrefix(a, b) == Len(a) <= Len(b) /\ \A i \in DOMAIN a : a[i] = b[i]

\* C16: the Turn sequence chat_sessions holds for a user_id only grows at its end:
\* across every step it is a prefix of what chat_sessions holds for that user_id
\* afterwards.
C16_TurnsAppendOnly ==
    [][\A u \in DOMAIN chat_sessions :
          u \in DOMAIN chat_sessions' =>
              IsPrefix(sessions[chat_sessions[u]], sessions'[chat_sessions'[u]])]_vars

\* worker r takes the step
Acts(r) == pc'[r] # pc[r] \/ calls'[r] # calls[r]
\* the user whose request worker r is serving in the step
Served(r) == IF Finished(r) THEN request'[r].user_id ELSE request[r].user_id

\* C17: a step of a request of user a leaves alone, for every other user b, the
\* chat_sessions entry of b, the Turn sequence of b's session, and the preferences
\* stored for b, in memory and on disk.
C17_OtherUsersUntouched ==
    [][\A r \in Reqs :
          (Acts(r) /\ ~(sessions # <<>> /\ sessions' = <<>>)) =>
              \A b \in Users \ {Served(r)} :
                  /\ b \in DOMAIN chat_sessions <=> b \in DOMAIN chat_sessions'
                  /\ b \in DOMAIN chat_sessions =>
                        /\ chat_sessions'[b] = chat_sessions[b]
                        /\ sessions'[chat_sessions[b]] = sessions[chat_sessions[b]]
                  /\ StoredFor(b, prefs_db') = StoredFor(b, prefs_db)
                  /\ StoredFor(b, prefs_disk') = StoredFor(b, prefs_disk)]_vars

\* the store with the documents of every user but u taken out
OnlyOf(u, db) == SelectSeq(db, LAMBDA d : d.user_id = u)
\* the store with one more document, of user v
WithOneOf(v, p, db) == Append(db, [page_content |-> p, user_id |-> v, type |-> "preference"])

\* for every user, what load_preferences and a new session make of the store db
FiltersByUser(db) ==
    \A u \in Users :
        LET here == load_preferences_text(u, db)
        IN /\ JsonLoads(here).value.items = StoredFor(u, db)
           /\ here = load_preferences_text(u, OnlyOf(u, db))
           /\ InitialHistory(u, db) = InitialHistory(u, OnlyOf(u, db))
           /\ \A v \in Users \ {u}, p \in Prefs :
                 /\ load_preferences_text(u, WithOneOf(v, p, db)) = here
                 /\ InitialHistory(u, WithOneOf(v, p, db)) = InitialHistory(u, db)

\* C18: the texts load_preferences returns for u are those stored under u, in order;
\* its result and the history of a new session of u are the same for the store as it
\* is, for the store without the other users' documents and for the store with one
\* more document of another user, in the first state and after every change of the
\* store; and that is what a session is created from and what the load_preferences
\* tool hands back.
C18_LoadFiltersByUser ==
    /\ FiltersByUser(prefs_db)
    /\ [][/\ prefs_db' # prefs_db => FiltersByUser(prefs_db')
          /\ \A r \in Reqs :
                /\ Creates(r) =>
                      history'[r] = InitialHistory(request[r].user_id,
                                                   OnlyOf(request[r].user_id, prefs_db))
                /\ (pc[r] = "exec" /\ pc'[r] = "awaiting"
                      /\ tool_name[r] = "load_preferences") =>
                      sent'[r].function_response.value =
                          load_preferences_text(request[r].user_id,
                                                OnlyOf(request[r].user_id, prefs_db))]_vars
\* a session of one user was seeded with exactly that user's preferences while the
\* store also holds preferences of another user
C18_Witness ==
    \E u \in DOMAIN chat_sessions :
        LET h == sessions[chat_sessions[u]]
        IN /\ Seeded(h)
           /\ h[3].parts[1].text = SummaryText(StoredFor(u, prefs_db))
           /\ \E i \in DOMAIN prefs_db : prefs_db[i].user_id # u

\* load_preferences hands get_chat_session something that is not a list of texts
LoadFails(u, db) ==
    LET x == JsonLoads(load_preferences_text(u, db))
    IN x.raised \/ x.value.type # "list"

\* C19: when the load of the preferences fails while a session is created, the
\* history is the policy pair alone, and the session is started with it, registered
\* under the user_id and returned to the request, which goes on to its first
\* gateway call.
C19_LoadFailureSwallowed ==
    [][\A r \in Reqs :
          /\ (pc[r] = "create" /\ pc'[r] # "create"
                /\ LoadFails(request[r].user_id, prefs_db)) =>
                /\ pc'[r] = "register"
                /\ Len(history'[r]) = 2
                /\ IsPolicyUser(history'[r][1])
                /\ IsPolicyAck(history'[r][2])
          /\ (pc[r] = "register" /\ pc'[r] # "register") =>
                /\ pc'[r] = "return_session"
                /\ sessions' = Append(sessions, history[r])
                /\ request[r].user_id \in DOMAIN chat_sessions'
                /\ chat_sessions'[request[r].user_id] = Len(sessions')
          /\ (pc[r] = "return_session" /\ pc'[r] # "return_session") =>
                /\ pc'[r] = "send_first"
                /\ chat'[r] = chat_sessions[request[r].user_id]
                /\ chat'[r] \in DOMAIN sessions]_vars
\* a request whose load failed at session creation was served to its final text on a
\* session that starts with the policy pair and the request's message
C19_Witness ==
    /\ pc["r1"] = "done"
    /\ reply["r1"].response = FinalText
    /\ LoadFails(request["r1"].user_id, prefs_db)
    /\ request["r1"].user_id \in DOMAIN chat_sessions
    /\ LET h == sessions[chat_sessions[request["r1"].user_id]]
       IN /\ Len(h) >= 4
          /\ IsPolicyUser(h[1]) /\ IsPolicyAck(h[2])
          /\ IsMessage(h[3])

\* resp has parts after its leading one
MultiPart(resp) == resp.candidates # <<>> /\ Len(resp.candidates[1].parts) >= 2

\* C20: the leading part alone decides.  A response that leads with text ends the
\* request with that text and runs no tool, whatever follows the text; a response
\* that leads with a tool call has that call, under its name and with its arguments,
\* executed once, and nothing is executed again before a new response has come.
C20_OnlyFirstPartDecides ==
    [][\A r \in Reqs :
          /\ (pc[r] = "loop" /\ pc'[r] # "loop" /\ MultiPart(response[r])
                /\ ~LeadingCall(response[r])
                /\ response[r].candidates[1].parts[1].text # "") =>
                /\ pc'[r] = "done"
                /\ reply'[r] = [user_id |-> request[r].user_id,
                                response |-> response[r].candidates[1].parts[1].text]
                /\ execs'[r] = execs[r]
                /\ calls'[r] = calls[r]
                /\ prefs_db' = prefs_db
          /\ (pc[r] = "loop" /\ pc'[r] # "loop" /\ LeadingCall(response[r])) =>
                /\ pc'[r] \in {"exec", "awaiting"}
                /\ tool_name'[r] = Requested(r)
                /\ response'[r] = response[r]
                /\ execs'[r] = execs[r]
                /\ prefs_db' = prefs_db
          /\ (pc[r] = "exec" /\ pc'[r] # "exec") =>
                /\ tool_name[r] = Requested(r)
                /\ tool_args[r] = Injected(Requested(r),
                        response[r].candidates[1].parts[1].function_call.args,
                        request[r].user_id)
                /\ execs'[r] = execs[r] + 1
                /\ sent'[r].function_response.name = Requested(r)
                /\ Requested(r) # "save_preference" => prefs_db' = prefs_db
          /\ pc[r] = "awaiting" =>
                /\ pc'[r] # "exec"
                /\ execs'[r] = execs[r]
                /\ prefs_db' = prefs_db
                      \/ \E q \in Reqs \ {r} : pc[q] = "exec" /\ pc'[q] # "exec"]_vars
\* a request got load_preferences followed by save_preference in one response and
\* then a text followed by save_preference: one handler ran, nothing was saved and
\* the text was returned
C20_Witness ==
    /\ pc["r1"] = "done"
    /\ reply["r1"].response = FinalText
    /\ execs["r1"] = 1
    /\ prefs_db = <<>>
    /\ request["r1"].user_id \in DOMAIN chat_sessions
    /\ LET h == sessions[chat_sessions[request["r1"].user_id]]
       IN /\ Len(h) >= 4
          /\ h[Len(h)].parts = <<TextPart(FinalText), SaveCall("museums")>>
          /\ h[Len(h) - 2].parts = <<LoadCall, SaveCall("museums")>>

====
